---- MODULE Spec2Model ----
(***************************************************************************)
(* Model of the CaRMS ETL pipeline (src/src/carms/etl/assets.py): the      *)
(* seven assets, the order in which the asset-graph runtime executes them, *)
(* and the transactional load into the relational store whose schema is    *)
(* declared in src/src/carms/db/models.py.                                 *)
(*                                                                         *)
(* Strings that the code takes apart (URLs, page contents) are sequences   *)
(* of one-character strings; opaque strings (names) are TLA+ strings.      *)
(***************************************************************************)
EXTENDS Integers, Sequences, FiniteSets, TLC

\* ------------------------------------------------------------------ values
\* SQL NULL / Python None / pandas NaN in an integer column.
NullInt == -1
\* SQL NULL / Python None in an opaque string column.
NullStr == "<NULL>"
\* SQL NULL in a character-sequence valued column (program.extra_data).
NullSeq == <<>>

Digits == {"0", "1", "7", "9"}
NL == "\n"
WhiteSpace == {" ", NL}

DigitVal(c) ==
    CASE c = "0" -> 0
      [] c = "1" -> 1
      [] c = "7" -> 7
      [] c = "9" -> 9
      [] OTHER -> 0

\* str.isdigit(): non-empty and every character a digit.
IsDigit(s) == Len(s) > 0 /\ \A i \in 1..Len(s) : s[i] \in Digits

\* int(s) for a digit string.
RECURSIVE IntOf(_)
IntOf(s) ==
    IF Len(s) = 0 THEN 0
    ELSE 10 * IntOf(SubSeq(s, 1, Len(s) - 1)) + DigitVal(s[Len(s)])

\* str.split(sep): the segments between occurrences of sep, empty ones kept;
\* always at least one segment.
RECURSIVE SplitFrom(_, _, _, _)
SplitFrom(s, sep, i, cur) ==
    IF i > Len(s) THEN <<cur>>
    ELSE IF s[i] = sep THEN <<cur>> \o SplitFrom(s, sep, i + 1, <<>>)
    ELSE SplitFrom(s, sep, i + 1, Append(cur, s[i]))

Split(s, sep) == SplitFrom(s, sep, 1, <<>>)

\* str.replace(c, ''): every occurrence of c removed.
RECURSIVE RemoveAll(_, _)
RemoveAll(s, c) ==
    IF Len(s) = 0 THEN <<>>
    ELSE IF s[1] = c THEN RemoveAll(Tail(s), c)
    ELSE <<s[1]>> \o RemoveAll(Tail(s), c)

\* str.strip(): leading and trailing whitespace removed.
RECURSIVE LStrip(_)
LStrip(s) ==
    IF Len(s) > 0 /\ s[1] \in WhiteSpace THEN LStrip(Tail(s)) ELSE s

RECURSIVE RStrip(_)
RStrip(s) ==
    IF Len(s) > 0 /\ s[Len(s)] \in WhiteSpace
    THEN RStrip(SubSeq(s, 1, Len(s) - 1)) ELSE s

Strip(s) == RStrip(LStrip(s))

\* ------------------------------------------------- description parser (pure)
\* A JSON record of the description export.  pcKind / mdKind / srcKind say
\* whether the key is a string/object ("val"), absent ("missing") or null.
Item(pcKind, pc, mdKind, srcKind, src) ==
    [pcKind |-> pcKind, pc |-> pc, mdKind |-> mdKind, srcKind |-> srcKind, src |-> src]

\* Lines 87-93: the program id of a source URL. ok = FALSE is both the
\* `continue` of line 93 and the IndexError of parts[-2] on a one-segment
\* list, which the except of line 109 turns into a skip.
ProgIdFirstSegmentOnly(url) ==
    LET parts == Split(Split(url, "?")[1], "/")
        n == Len(parts)
    IN  IF IsDigit(parts[n]) THEN [ok |-> TRUE, id |-> IntOf(parts[n])]
        ELSE [ok |-> FALSE, id |-> NullInt]

ProgIdOf(url) ==
    LET parts == Split(Split(url, "?")[1], "/")
        n == Len(parts)
    IN  IF IsDigit(parts[n]) THEN [ok |-> TRUE, id |-> IntOf(parts[n])]
        ELSE IF n >= 2 /\ IsDigit(parts[n - 1]) THEN [ok |-> TRUE, id |-> IntOf(parts[n - 1])]
        ELSE [ok |-> FALSE, id |-> NullInt]

\* Lines 96-97: lines[0].replace('#', '').strip(); split never returns an
\* empty list, so the "Program Description" alternative is never taken.
TitleOf(content) ==
    LET lines == Split(content, NL)
    IN  IF Len(lines) > 0 THEN Strip(RemoveAll(lines[1], "#"))
        ELSE <<"Program Description">>

\* Line 101: json.dumps(metadata), an injective rendering of the object.
DumpsMeta(item) ==
    IF item.mdKind = "missing" \/ item.srcKind = "missing" THEN <<"{}">>
    ELSE IF item.srcKind = "null" THEN <<"{source:null}">>
    ELSE <<"{source:">> \o item.src \o <<"}">>

\* Lines 77-110 for one record: "raise" (an exception outside the try, which
\* fails the asset), "skip" (continue / caught exception) or "row".
NoRow == [program_id |-> NullInt, title |-> <<>>, content |-> <<>>, extra_data |-> NullSeq]

ParseItem(item) ==
    IF item.mdKind = "null" THEN [kind |-> "raise", row |-> NoRow]
    ELSE IF item.mdKind = "val" /\ item.srcKind = "null" THEN [kind |-> "skip", row |-> NoRow]
    ELSE LET url == IF item.mdKind = "val" /\ item.srcKind = "val" THEN item.src ELSE <<>>
             pid == ProgIdOf(url)
             content == IF item.pcKind = "val" THEN item.pc ELSE <<>>
         IN  IF ~pid.ok THEN [kind |-> "skip", row |-> NoRow]
             ELSE IF item.pcKind = "null" THEN [kind |-> "skip", row |-> NoRow]
             ELSE [kind |-> "row",
                   row |-> [program_id |-> pid.id, title |-> TitleOf(content),
                            content |-> content, extra_data |-> DumpsMeta(item)]]

\* Lines 75-112: the rows of the whole list, or failed when a record raises.
RECURSIVE ParseItems(_)
ParseItems(items) ==
    IF Len(items) = 0 THEN [failed |-> FALSE, rows |-> <<>>]
    ELSE LET h == ParseItem(items[1])
             t == ParseItems(Tail(items))
         IN  IF h.kind = "raise" \/ t.failed THEN [failed |-> TRUE, rows |-> <<>>]
             ELSE IF h.kind = "skip" THEN t
             ELSE [failed |-> FALSE, rows |-> <<h.row>> \o t.rows]

\* ------------------------------------------------------------------ frames
\* A pandas DataFrame: its column names and its rows (functions on the columns).
NoFrame == [cols |-> {}, rows |-> <<>>]
Frame(cols, rows) == [cols |-> cols, rows |-> rows]
\* DataFrame.empty
IsEmpty(df) == Len(df.rows) = 0 \/ df.cols = {}

\* A source file under RAW_DATA_DIR: a spreadsheet (a frame) or absent.
MissingSheet == [exists |-> FALSE, cols |-> {}, rows |-> <<>>]
Sheet(cols, rows) == [exists |-> TRUE, cols |-> cols, rows |-> rows]

\* The description export: absent, not JSON, or a JSON list of records.
MissingJson == [kind |-> "missing", items |-> <<>>]
BadJson == [kind |-> "unparseable", items |-> <<>>]
JsonList(items) == [kind |-> "list", items |-> items]

\* Lines 26-31: rename discipline -> name, select [discipline_id, name];
\* the selection raises KeyError when a column is absent.
TransformDisciplines(raw) ==
    IF ~("discipline_id" \in raw.cols /\ ({"discipline", "name"} \cap raw.cols # {}))
    THEN [failed |-> TRUE, df |-> NoFrame]
    ELSE [failed |-> FALSE,
          df |-> Frame({"discipline_id", "name"},
                       [i \in 1..Len(raw.rows) |->
                          [discipline_id |-> raw.rows[i].discipline_id,
                           name |-> IF "discipline" \in raw.cols
                                    THEN raw.rows[i].discipline ELSE raw.rows[i].name]])]

\* DataFrame.drop_duplicates(): the first occurrence of each row, in order.
RECURSIVE DropDuplicates(_)
DropDuplicates(s) ==
    IF Len(s) = 0 THEN <<>>
    ELSE LET init == DropDuplicates(SubSeq(s, 1, Len(s) - 1))
             last == s[Len(s)]
         IN  IF \E i \in 1..Len(init) : init[i] = last THEN init ELSE Append(init, last)

\* Lines 33-38 without the drop_duplicates() of line 36.
TransformSchoolsKeepsDuplicates(raw) ==
    IF ~({"school_id", "school_name"} \subseteq raw.cols)
    THEN [failed |-> TRUE, df |-> NoFrame]
    ELSE [failed |-> FALSE,
          df |-> Frame({"id", "name"},
                       [i \in 1..Len(raw.rows) |->
                          [id |-> raw.rows[i].school_id, name |-> raw.rows[i].school_name]])]

\* Lines 33-38: the distinct (school_id, school_name) pairs, renamed (id, name).
TransformSchools(raw) ==
    IF ~({"school_id", "school_name"} \subseteq raw.cols)
    THEN [failed |-> TRUE, df |-> NoFrame]
    ELSE [failed |-> FALSE,
          df |-> Frame({"id", "name"},
                       DropDuplicates([i \in 1..Len(raw.rows) |->
                          [id |-> raw.rows[i].school_id, name |-> raw.rows[i].school_name]]))]

\* Lines 40-55: rename, synthesize absent target columns as None, select.
TransformPrograms(raw) ==
    LET IntCol(row, a, b) == IF a \in raw.cols THEN row[a]
                             ELSE IF b \in raw.cols THEN row[b] ELSE NullInt
        StrCol(row, a, b) == IF a \in raw.cols THEN row[a]
                             ELSE IF b \in raw.cols THEN row[b] ELSE NullStr
        SeqCol(row, a, b) == IF a \in raw.cols THEN row[a]
                             ELSE IF b \in raw.cols THEN row[b] ELSE NullSeq
    IN  [failed |-> FALSE,
         df |-> Frame({"id", "school_id", "discipline_id", "name", "url"},
                      [i \in 1..Len(raw.rows) |->
                         [id |-> IntCol(raw.rows[i], "program_stream_id", "id"),
                          school_id |-> IntCol(raw.rows[i], "school_id", "school_id"),
                          discipline_id |-> IntCol(raw.rows[i], "discipline_id", "discipline_id"),
                          name |-> StrCol(raw.rows[i], "program_name", "name"),
                          url |-> SeqCol(raw.rows[i], "program_url", "url")]])]

\* Lines 57-112: an unreadable or unparseable file gives pd.DataFrame(); a
\* record that raises outside the inner try fails the asset.
ParseDescriptionsRaisesOnError(json) ==
    IF json.kind # "list" THEN [failed |-> TRUE, df |-> NoFrame]
    ELSE LET p == ParseItems(json.items)
         IN  IF p.failed THEN [failed |-> TRUE, df |-> NoFrame]
             ELSE IF Len(p.rows) = 0 THEN [failed |-> FALSE, df |-> NoFrame]
             ELSE [failed |-> FALSE,
                   df |-> Frame({"program_id", "title", "content", "extra_data"}, p.rows)]

ParseDescriptions(json) ==
    IF json.kind # "list" THEN [failed |-> FALSE, df |-> NoFrame]
    ELSE LET p == ParseItems(json.items)
         IN  IF p.failed THEN [failed |-> TRUE, df |-> NoFrame]
             ELSE IF Len(p.rows) = 0 THEN [failed |-> FALSE, df |-> NoFrame]
             ELSE [failed |-> FALSE,
                   df |-> Frame({"program_id", "title", "content", "extra_data"}, p.rows)]

\* ------------------------------------------------------------ source files
Url10 == <<"p", "/", "1", "0">>
Url10q == <<"p", "/", "1", "0", "/", "?", "e">>
Url99 == <<"p", "/", "9", "9">>
UrlBad == <<"p", "/", "e">>
Url11 == <<"p", "/", "1", "1">>

DiscRow(id, name) == [discipline_id |-> id, discipline |-> name]
DiscCols == {"discipline_id", "discipline"}
DiscSheets ==
    { MissingSheet,
      Sheet(DiscCols, <<DiscRow(1, "Medicine")>>),
      Sheet(DiscCols, <<DiscRow(1, "Medicine"), DiscRow(2, "Surgery")>>),
      Sheet(DiscCols, <<DiscRow(1, "Medicine"), DiscRow(1, "Surgery")>>) }

ProgRow(id, name, url, sid, sname, did) ==
    [program_stream_id |-> id, program_name |-> name, program_url |-> url,
     school_id |-> sid, school_name |-> sname, discipline_id |-> did]
ProgCols == {"program_stream_id", "program_name", "program_url",
             "school_id", "school_name", "discipline_id"}
ProgSheets ==
    { MissingSheet,
      Sheet(ProgCols \ {"program_url"}, <<ProgRow(10, "FM", Url10, 1, "UBC", 1)>>),
      Sheet(ProgCols, <<ProgRow(10, "FM", Url10, 1, "UBC", 1),
                        ProgRow(11, "IM", Url11, 1, "UBC", 2)>>),
      Sheet(ProgCols, <<ProgRow(10, "FM", Url10, 1, "UBC", 1),
                        ProgRow(11, "IM", Url11, 1, "Toronto", 1)>>),
      Sheet(ProgCols \ {"school_name"}, <<ProgRow(10, "FM", Url10, 1, "UBC", 1)>>) }

Body1 == <<"#", " ", "p", NL, "e">>
Body2 == <<"e">>
DescJsons ==
    { MissingJson,
      BadJson,
      JsonList(<<Item("val", Body1, "val", "val", Url10),
                 Item("val", Body2, "val", "val", UrlBad)>>),
      JsonList(<<Item("val", Body1, "val", "val", Url10),
                 Item("val", Body2, "val", "val", Url10q)>>),
      JsonList(<<Item("val", Body1, "val", "val", Url99)>>),
      JsonList(<<Item("val", Body1, "val", "val", Url10),
                 Item("val", Body2, "null", "missing", <<>>)>>) }

\* ------------------------------------------------------------------- store
\* The relational store: whether create_all has created the schema, the rows
\* of the four tables, the next value of programsection's identity sequence
\* and the helper table temp_program_meta.
NoTemp == [exists |-> FALSE, rows |-> <<>>]
EmptyDb ==
    [schema |-> FALSE, discipline |-> {}, school |-> {}, program |-> {},
     programsection |-> {}, section_seq |-> 1, temp_program_meta |-> NoTemp]

\* The rows of the four tables.
Tables(d) ==
    [discipline |-> d.discipline, school |-> d.school, program |-> d.program,
     programsection |-> d.programsection]

\* --------------------------------------------------------------- the graph
Runs == {"A", "B"}

Assets ==
    {"raw_disciplines_df", "raw_programs_df", "transform_disciplines_asset",
     "transform_schools_asset", "transform_programs_asset",
     "program_descriptions_df", "load_to_postgres"}

\* The upstream assets of an asset: the parameter names of its function.
DepsWithoutDescriptions(a) ==
    CASE a = "transform_disciplines_asset" -> {"raw_disciplines_df"}
      [] a = "transform_schools_asset" -> {"raw_programs_df"}
      [] a = "transform_programs_asset" -> {"raw_programs_df"}
      [] a = "load_to_postgres" ->
            {"transform_disciplines_asset", "transform_schools_asset",
             "transform_programs_asset"}
      [] OTHER -> {}

Deps(a) ==
    CASE a = "transform_disciplines_asset" -> {"raw_disciplines_df"}
      [] a = "transform_schools_asset" -> {"raw_programs_df"}
      [] a = "transform_programs_asset" -> {"raw_programs_df"}
      [] a = "load_to_postgres" ->
            {"transform_disciplines_asset", "transform_schools_asset",
             "transform_programs_asset", "program_descriptions_df"}
      [] OTHER -> {}

VARIABLES
    files,      \* the three source files under RAW_DATA_DIR
    db,         \* the committed contents of the store
    st,         \* per run: "idle", "running", "success", "failure", "cancelled"
    asset,      \* per run and asset: "pending", "running", "ok", "failed", "skipped"
    out,        \* per run and asset: the frame the asset returned
    lpc,        \* per run: the loader's position
    tx,         \* per run: the store as the run's open transaction sees it
    txOpen,     \* the runs whose transaction is open
    lock,       \* the runs holding the ACCESS EXCLUSIVE lock of the four tables
    meta,       \* per run: the metadata of the loader's Output
    dbAtStart,  \* per run: the store when the run started (history)
    failStep,   \* per run: where and why the load's transaction was rolled back (history)
    execCount,  \* per run and asset: how often the asset's function was entered
    fresh,      \* the last run that ended succeeded and no source file changed since
    rerun,      \* per run: started right after a successful run, sources unchanged
    probe       \* the record handed to the description parser on its own

vars == <<files, db, st, asset, out, lpc, tx, txOpen, lock, meta, dbAtStart,
          failStep, execCount, fresh, rerun, probe>>

runVars == <<st, asset, out, lpc, tx, txOpen, lock, meta, dbAtStart, failStep,
             execCount, rerun>>

NoFail == [at |-> "none", why |-> "none"]
NoMeta == [disciplines_count |-> NullInt, schools_count |-> NullInt,
           programs_count |-> NullInt, sections_count |-> NullInt]
NoProbe == [item |-> Item("missing", <<>>, "missing", "missing", <<>>),
            done |-> FALSE, res |-> [kind |-> "skip", row |-> NoRow],
            sheet |-> NoFrame, transformed |-> FALSE,
            schools |-> [failed |-> FALSE, df |-> NoFrame]]

InitRuns ==
    /\ st = [r \in Runs |-> "idle"]
    /\ asset = [r \in Runs |-> [a \in Assets |-> "pending"]]
    /\ out = [r \in Runs |-> [a \in Assets |-> NoFrame]]
    /\ lpc = [r \in Runs |-> "idle"]
    /\ tx = [r \in Runs |-> EmptyDb]
    /\ txOpen = {}
    /\ lock = {}
    /\ meta = [r \in Runs |-> NoMeta]
    /\ dbAtStart = [r \in Runs |-> EmptyDb]
    /\ failStep = [r \in Runs |-> NoFail]
    /\ execCount = [r \in Runs |-> [a \in Assets |-> 0]]
    /\ fresh = FALSE
    /\ rerun = [r \in Runs |-> FALSE]

Init ==
    /\ files \in [disc : DiscSheets, prog : ProgSheets, desc : DescJsons]
    /\ db = EmptyDb
    /\ InitRuns
    /\ probe = NoProbe

\* ------------------------------------------------------------- the runtime
\* A run is launched: every asset of the graph is to be materialized once.
StartRun(r) ==
    /\ st[r] = "idle"
    /\ st' = [st EXCEPT ![r] = "running"]
    /\ dbAtStart' = [dbAtStart EXCEPT ![r] = db]
    /\ rerun' = [rerun EXCEPT ![r] = fresh]
    /\ UNCHANGED <<files, db, asset, out, lpc, tx, txOpen, lock, meta, failStep,
                   execCount, fresh, probe>>

\* The runtime starts a step only when each of its inputs has been produced.
CanRunIgnoringUpstream(r, a) ==
    /\ st[r] = "running"
    /\ asset[r][a] = "pending"
    /\ \A d \in Deps(a) : asset[r][d] # "pending"

CanRun(r, a) ==
    /\ st[r] = "running"
    /\ asset[r][a] = "pending"
    /\ \A d \in Deps(a) : asset[r][d] = "ok"

\* A step whose function returned or raised.
Finish(r, a, res) ==
    /\ asset' = [asset EXCEPT ![r][a] = IF res.failed THEN "failed" ELSE "ok"]
    /\ out' = [out EXCEPT ![r][a] = res.df]
    /\ execCount' = [execCount EXCEPT ![r][a] = @ + 1]
    /\ UNCHANGED <<files, db, st, lpc, tx, txOpen, lock, meta, dbAtStart, failStep,
                   fresh, rerun, probe>>

\* Lines 14-24: pd.read_excel raises when the file is missing.
ReadSheet(sheet) ==
    IF sheet.exists THEN [failed |-> FALSE, df |-> Frame(sheet.cols, sheet.rows)]
    ELSE [failed |-> TRUE, df |-> NoFrame]

RawDisciplines(r) ==
    /\ CanRun(r, "raw_disciplines_df")
    /\ Finish(r, "raw_disciplines_df", ReadSheet(files.disc))

RawPrograms(r) ==
    /\ CanRun(r, "raw_programs_df")
    /\ Finish(r, "raw_programs_df", ReadSheet(files.prog))

TransformDisciplinesAsset(r) ==
    /\ CanRun(r, "transform_disciplines_asset")
    /\ Finish(r, "transform_disciplines_asset",
              TransformDisciplines(out[r]["raw_disciplines_df"]))

TransformSchoolsAsset(r) ==
    /\ CanRun(r, "transform_schools_asset")
    /\ Finish(r, "transform_schools_asset", TransformSchools(out[r]["raw_programs_df"]))

TransformProgramsAsset(r) ==
    /\ CanRun(r, "transform_programs_asset")
    /\ Finish(r, "transform_programs_asset", TransformPrograms(out[r]["raw_programs_df"]))

ProgramDescriptions(r) ==
    /\ CanRun(r, "program_descriptions_df")
    /\ Finish(r, "program_descriptions_df", ParseDescriptions(files.desc))

\* A step downstream of a failed or skipped step is not executed.
SkipAsset(r) ==
    \E a \in Assets :
        /\ st[r] = "running"
        /\ asset[r][a] = "pending"
        /\ \E d \in Deps(a) : asset[r][d] \in {"failed", "skipped"}
        /\ asset' = [asset EXCEPT ![r][a] = "skipped"]
        /\ UNCHANGED <<files, db, st, out, lpc, tx, txOpen, lock, meta, dbAtStart,
                       failStep, execCount, fresh, rerun, probe>>

\* The run ends when no step is left to execute.
FinishRun(r) ==
    /\ st[r] = "running"
    /\ \A a \in Assets : asset[r][a] \in {"ok", "failed", "skipped"}
    /\ st' = [st EXCEPT ![r] = IF \A a \in Assets : asset[r][a] = "ok"
                               THEN "success" ELSE "failure"]
    /\ UNCHANGED <<files, db, asset, out, lpc, tx, txOpen, lock, meta, dbAtStart,
                   failStep, execCount, fresh, rerun, probe>>

\* The run's process is gone: its frames and step states exist no longer.
Retire(r) ==
    /\ st[r] \in {"success", "failure", "cancelled"}
    /\ r \notin txOpen
    /\ st' = [st EXCEPT ![r] = "idle"]
    /\ asset' = [asset EXCEPT ![r] = [a \in Assets |-> "pending"]]
    /\ out' = [out EXCEPT ![r] = [a \in Assets |-> NoFrame]]
    /\ lpc' = [lpc EXCEPT ![r] = "idle"]
    /\ meta' = [meta EXCEPT ![r] = NoMeta]
    /\ dbAtStart' = [dbAtStart EXCEPT ![r] = EmptyDb]
    /\ failStep' = [failStep EXCEPT ![r] = NoFail]
    /\ execCount' = [execCount EXCEPT ![r] = [a \in Assets |-> 0]]
    /\ rerun' = [rerun EXCEPT ![r] = FALSE]
    /\ fresh' = (st[r] = "success")
    /\ UNCHANGED <<files, db, tx, txOpen, lock, probe>>

\* A source file is replaced while no run is in progress.
EditSources ==
    /\ \A r \in Runs : st[r] = "idle"
    /\ \E f \in [disc : DiscSheets, prog : ProgSheets, desc : DescJsons] :
          /\ f # files
          /\ files' = f
    /\ fresh' = FALSE
    /\ UNCHANGED <<db, probe>>
    /\ UNCHANGED runVars

\* ------------------------------------------------------- store operations
\* A primary key: not null, and unique among the new and the existing rows.
PkOk(ids, existing) ==
    \A i \in 1..Len(ids) :
        /\ ids[i] # NullInt
        /\ ids[i] \notin existing
        /\ \A j \in 1..Len(ids) : j # i => ids[j] # ids[i]

Ids(table) == {row.id : row \in table}
SeqToSet(s) == {s[i] : i \in 1..Len(s)}

\* Line 130: TRUNCATE ... RESTART IDENTITY CASCADE empties the four tables and
\* resets programsection's identity sequence.
TruncateKeepsSections(d) ==
    [d EXCEPT !.discipline = {}, !.school = {}, !.program = {}]

Truncate(d) ==
    [d EXCEPT !.discipline = {}, !.school = {}, !.program = {}, !.programsection = {},
              !.section_seq = 1]

\* Lines 132-134: the frame, discipline_id renamed id, appended to discipline
\* (id primary key, name NOT NULL: models.py 9-17).
DisciplineInsert(d, df) ==
    LET ids == [i \in 1..Len(df.rows) |-> df.rows[i].discipline_id]
        ok == /\ (df.cols \ {"discipline_id"}) \cup {"id"} \subseteq {"id", "name", "name_fr"}
              /\ PkOk(ids, Ids(d.discipline))
              /\ \A i \in 1..Len(df.rows) : df.rows[i].name # NullStr
    IN  [ok |-> ok,
         db |-> [d EXCEPT !.discipline = @ \cup
                    {[id |-> row.discipline_id, name |-> row.name, name_fr |-> NullStr]
                       : row \in SeqToSet(df.rows)}]]

\* Lines 136-138: the frame appended to school (id primary key, name NOT
\* NULL: models.py 19-27).
SchoolInsert(d, df) ==
    LET ids == [i \in 1..Len(df.rows) |-> df.rows[i].id]
        ok == /\ df.cols \subseteq {"id", "name", "province"}
              /\ PkOk(ids, Ids(d.school))
              /\ \A i \in 1..Len(df.rows) : df.rows[i].name # NullStr
    IN  [ok |-> ok,
         db |-> [d EXCEPT !.school = @ \cup
                    {[id |-> row.id, name |-> row.name, province |-> NullStr]
                       : row \in SeqToSet(df.rows)}]]

\* models.py 34-35: program.discipline_id and program.school_id are nullable
\* foreign keys.
ProgramFkOk(d, row) ==
    /\ row.school_id = NullInt \/ row.school_id \in Ids(d.school)
    /\ row.discipline_id = NullInt \/ row.discipline_id \in Ids(d.discipline)

\* Lines 140-142: the frame appended to program (id primary key, name NOT
\* NULL: models.py 29-44); description and extra_data are left NULL.
ProgramInsert(d, df) ==
    LET ids == [i \in 1..Len(df.rows) |-> df.rows[i].id]
        ok == /\ PkOk(ids, Ids(d.program))
              /\ \A i \in 1..Len(df.rows) :
                    /\ df.rows[i].name # NullStr
                    /\ ProgramFkOk(d, df.rows[i])
    IN  [ok |-> ok,
         db |-> [d EXCEPT !.program = @ \cup
                    {[id |-> row.id, name |-> row.name, description |-> NullStr,
                      url |-> row.url, discipline_id |-> row.discipline_id,
                      school_id |-> row.school_id, extra_data |-> NullSeq]
                       : row \in SeqToSet(df.rows)}]]

\* models.py 50: programsection.program_id is a nullable foreign key.
SectionFkUnchecked(d, row) == TRUE

SectionFkOk(d, row) ==
    row.program_id = NullInt \/ row.program_id \in Ids(d.program)

\* Lines 157-158: program_id, title, content appended to programsection; the
\* id comes from the identity sequence (models.py 46-55).
SectionInsert(d, df) ==
    LET n == Len(df.rows)
        ok == /\ \A i \in 1..n : SectionFkOk(d, df.rows[i])
              /\ PkOk([i \in 1..n |-> d.section_seq + i - 1], Ids(d.programsection))
    IN  [ok |-> ok,
         db |-> [d EXCEPT !.programsection = @ \cup
                    {[id |-> d.section_seq + i - 1, title |-> df.rows[i].title,
                      content |-> df.rows[i].content,
                      program_id |-> df.rows[i].program_id] : i \in 1..n},
                  !.section_seq = @ + n]]

\* Line 164: [["program_id", "extra_data"]].dropna()
RECURSIVE MetaRows(_)
MetaRows(rows) ==
    IF Len(rows) = 0 THEN <<>>
    ELSE LET h == [program_id |-> rows[1].program_id, extra_data |-> rows[1].extra_data]
         IN  IF h.program_id = NullInt \/ h.extra_data = NullSeq
             THEN MetaRows(Tail(rows)) ELSE <<h>> \o MetaRows(Tail(rows))

\* The UPDATE of lines 167-172 without its WHERE clause: every program row
\* takes the value of the first helper row.
UpdateMetaWithoutWhere(d, pick) ==
    [d EXCEPT !.program =
        {[p EXCEPT !.extra_data = d.temp_program_meta.rows[1].extra_data] :
            p \in d.program}]

\* Lines 167-172: UPDATE program ... FROM temp_program_meta. A program row
\* joined by several helper rows takes the value of one of them, which one
\* is not determined: pick names the helper row used for each joined id.
Joined(d) ==
    {p.id : p \in d.program} \cap
    {d.temp_program_meta.rows[i].program_id : i \in 1..Len(d.temp_program_meta.rows)}

Picks(d) ==
    {pick \in [Joined(d) -> 1..Len(d.temp_program_meta.rows)] :
        \A id \in Joined(d) : d.temp_program_meta.rows[pick[id]].program_id = id}

UpdateMeta(d, pick) ==
    [d EXCEPT !.program =
        {IF p.id \in Joined(d)
         THEN [p EXCEPT !.extra_data = d.temp_program_meta.rows[pick[p.id]].extra_data]
         ELSE p : p \in d.program}]

\* ---------------------------------------------------------------- the loader
LOAD == "load_to_postgres"
DescDf(r) == out[r]["program_descriptions_df"]

\* Line 127: leaving `with engine.begin()` by an exception rolls the
\* transaction back: nothing it wrote is committed, its locks are released,
\* and the step fails.
RollbackKeepsWrites(r, why) ==
    /\ db' = IF r \in lock THEN tx[r] ELSE db
    /\ tx' = [tx EXCEPT ![r] = EmptyDb]
    /\ txOpen' = txOpen \ {r}
    /\ lock' = lock \ {r}
    /\ lpc' = [lpc EXCEPT ![r] = "rolledback"]
    /\ failStep' = [failStep EXCEPT ![r] = [at |-> lpc[r], why |-> why]]
    /\ asset' = [asset EXCEPT ![r][LOAD] = "failed"]

Rollback(r, why) ==
    /\ db' = db
    /\ tx' = [tx EXCEPT ![r] = EmptyDb]
    /\ txOpen' = txOpen \ {r}
    /\ lock' = lock \ {r}
    /\ lpc' = [lpc EXCEPT ![r] = "rolledback"]
    /\ failStep' = [failStep EXCEPT ![r] = [at |-> lpc[r], why |-> why]]
    /\ asset' = [asset EXCEPT ![r][LOAD] = "failed"]

\* A statement of the transaction succeeded (the new view of the store and
\* the next position) or raised.
Statement(r, res, next) ==
    /\ IF res.ok
       THEN /\ tx' = [tx EXCEPT ![r] = res.db]
            /\ lpc' = [lpc EXCEPT ![r] = next]
            /\ UNCHANGED <<db, txOpen, lock, failStep, asset>>
       ELSE Rollback(r, "statement")
    /\ UNCHANGED <<files, st, out, meta, dbAtStart, execCount, fresh, rerun, probe>>

\* Line 125: SQLModel.metadata.create_all(engine), outside the transaction.
CreateAll(r) ==
    /\ CanRun(r, LOAD)
    /\ lpc[r] = "idle"
    /\ asset' = [asset EXCEPT ![r][LOAD] = "running"]
    /\ execCount' = [execCount EXCEPT ![r][LOAD] = @ + 1]
    /\ db' = [db EXCEPT !.schema = TRUE]
    /\ lpc' = [lpc EXCEPT ![r] = "created"]
    /\ UNCHANGED <<files, st, out, tx, txOpen, lock, meta, dbAtStart, failStep,
                   fresh, rerun, probe>>

\* Line 127: engine.begin() opens the connection and its transaction.
BeginTx(r) ==
    /\ st[r] = "running"
    /\ lpc[r] = "created"
    /\ txOpen' = txOpen \cup {r}
    /\ lpc' = [lpc EXCEPT ![r] = "begun"]
    /\ UNCHANGED <<files, db, st, asset, out, tx, lock, meta, dbAtStart, failStep,
                   execCount, fresh, rerun, probe>>

\* Line 130: TRUNCATE waits for the ACCESS EXCLUSIVE lock of the four tables,
\* which the transaction then holds until it ends.
LockIgnored(r) == TRUE

LockFree(r) == lock \subseteq {r}

TruncateTables(r) ==
    /\ st[r] = "running"
    /\ lpc[r] = "begun"
    /\ LockFree(r)
    /\ lock' = lock \cup {r}
    /\ tx' = [tx EXCEPT ![r] = Truncate(db)]
    /\ lpc' = [lpc EXCEPT ![r] = "truncated"]
    /\ UNCHANGED <<files, db, st, asset, out, txOpen, meta, dbAtStart, failStep,
                   execCount, fresh, rerun, probe>>

InsertDisciplines(r) ==
    /\ st[r] = "running"
    /\ lpc[r] = "truncated"
    /\ Statement(r, DisciplineInsert(tx[r], out[r]["transform_disciplines_asset"]),
                 "disciplines")

InsertSchools(r) ==
    /\ st[r] = "running"
    /\ lpc[r] = "disciplines"
    /\ Statement(r, SchoolInsert(tx[r], out[r]["transform_schools_asset"]), "schools")

InsertPrograms(r) ==
    /\ st[r] = "running"
    /\ lpc[r] = "schools"
    /\ Statement(r, ProgramInsert(tx[r], out[r]["transform_programs_asset"]), "programs")

\* Lines 150-158.
InsertSections(r) ==
    /\ st[r] = "running"
    /\ lpc[r] = "programs"
    /\ ~IsEmpty(DescDf(r))
    /\ Statement(r, SectionInsert(tx[r], DescDf(r)), "sections")

\* Lines 164-166: to_sql(..., if_exists="replace") (re)creates the helper table.
CreateTempMeta(r) ==
    /\ st[r] = "running"
    /\ lpc[r] = "sections"
    /\ Len(MetaRows(DescDf(r).rows)) > 0
    /\ Statement(r, [ok |-> TRUE,
                     db |-> [tx[r] EXCEPT !.temp_program_meta =
                                [exists |-> TRUE, rows |-> MetaRows(DescDf(r).rows)]]],
                 "temp")

\* Lines 167-172.
UpdateProgramMeta(r) ==
    /\ st[r] = "running"
    /\ lpc[r] = "temp"
    /\ \E pick \in Picks(tx[r]) :
          Statement(r, [ok |-> TRUE, db |-> UpdateMeta(tx[r], pick)], "updated")

\* Line 173.
DropTempMeta(r) ==
    /\ st[r] = "running"
    /\ lpc[r] = "updated"
    /\ Statement(r, [ok |-> tx[r].temp_program_meta.exists,
                     db |-> [tx[r] EXCEPT !.temp_program_meta = NoTemp]],
                 "patched")

\* The with block is left normally: the transaction commits.
AtBlockEnd(r) ==
    \/ lpc[r] = "patched"
    \/ lpc[r] = "programs" /\ IsEmpty(DescDf(r))
    \/ lpc[r] = "sections" /\ Len(MetaRows(DescDf(r).rows)) = 0

Commit(r) ==
    /\ st[r] = "running"
    /\ r \in txOpen
    /\ AtBlockEnd(r)
    /\ db' = tx[r]
    /\ tx' = [tx EXCEPT ![r] = EmptyDb]
    /\ txOpen' = txOpen \ {r}
    /\ lock' = lock \ {r}
    /\ lpc' = [lpc EXCEPT ![r] = "committed"]
    /\ UNCHANGED <<files, st, asset, out, meta, dbAtStart, failStep, execCount,
                   fresh, rerun, probe>>

\* Lines 175-180: the Output with the four counts.
ReturnOutput(r) ==
    /\ st[r] = "running"
    /\ lpc[r] = "committed"
    /\ lpc' = [lpc EXCEPT ![r] = "returned"]
    /\ asset' = [asset EXCEPT ![r][LOAD] = "ok"]
    /\ meta' = [meta EXCEPT ![r] =
          [disciplines_count |-> Len(out[r]["transform_disciplines_asset"].rows),
           schools_count |-> Len(out[r]["transform_schools_asset"].rows),
           programs_count |-> Len(out[r]["transform_programs_asset"].rows),
           sections_count |-> Len(DescDf(r).rows)]]
    /\ UNCHANGED <<files, db, st, out, tx, txOpen, lock, dbAtStart, failStep,
                   execCount, fresh, rerun, probe>>

\* A statement of the open transaction fails for a reason outside the data
\* (connection loss, server error).
DbFault(r) ==
    /\ st[r] = "running"
    /\ r \in txOpen
    /\ Rollback(r, "fault")
    /\ UNCHANGED <<files, st, out, meta, dbAtStart, execCount, fresh, rerun, probe>>

\* The exception raised in the step by a cancellation leaves the with block
\* like any other: an open transaction is rolled back.
InterruptLeavesTxOpen(r) ==
    UNCHANGED <<db, tx, txOpen, lock, lpc, failStep, asset>>

Interrupt(r) ==
    IF r \in txOpen THEN Rollback(r, "cancel")
    ELSE UNCHANGED <<db, tx, txOpen, lock, lpc, failStep, asset>>

\* The run is cancelled: its current step is interrupted, no further step starts.
Cancel(r) ==
    /\ st[r] = "running"
    /\ st' = [st EXCEPT ![r] = "cancelled"]
    /\ Interrupt(r)
    /\ UNCHANGED <<files, out, meta, dbAtStart, execCount, fresh, rerun, probe>>

\* ----------------------------------------------------------- specifications
Step(r) ==
    \/ RawDisciplines(r)
    \/ RawPrograms(r)
    \/ TransformDisciplinesAsset(r)
    \/ TransformSchoolsAsset(r)
    \/ TransformProgramsAsset(r)
    \/ ProgramDescriptions(r)
    \/ SkipAsset(r)
    \/ CreateAll(r)
    \/ BeginTx(r)
    \/ TruncateTables(r)
    \/ InsertDisciplines(r)
    \/ InsertSchools(r)
    \/ InsertPrograms(r)
    \/ InsertSections(r)
    \/ CreateTempMeta(r)
    \/ UpdateProgramMeta(r)
    \/ DropTempMeta(r)
    \/ Commit(r)
    \/ ReturnOutput(r)
    \/ DbFault(r)
    \/ Cancel(r)
    \/ FinishRun(r)

\* Runs of the pipeline launched one after the other against the same store,
\* the source files changing between runs.
Next ==
    \/ StartRun("A")
    \/ Step("A")
    \/ Retire("A")
    \/ EditSources

Spec == Init /\ [][Next]_vars

\* Two runs launched against the same store without waiting for each other.
ConcSources ==
    { [disc |-> Sheet(DiscCols, <<DiscRow(1, "Medicine"), DiscRow(2, "Surgery")>>),
       prog |-> Sheet(ProgCols, <<ProgRow(10, "FM", Url10, 1, "UBC", 1),
                                  ProgRow(11, "IM", Url11, 1, "UBC", 2)>>),
       desc |-> JsonList(<<Item("val", Body1, "val", "val", Url10),
                           Item("val", Body2, "val", "val", Url10q)>>)],
      [disc |-> Sheet(DiscCols, <<DiscRow(1, "Medicine")>>),
       prog |-> Sheet(ProgCols, <<ProgRow(10, "FM", Url10, 1, "UBC", 1),
                                  ProgRow(11, "IM", Url11, 1, "UBC", 2)>>),
       desc |-> MissingJson],
      [disc |-> MissingSheet,
       prog |-> Sheet(ProgCols \ {"program_url"}, <<ProgRow(10, "FM", Url10, 1, "UBC", 1)>>),
       desc |-> BadJson] }

InitConc ==
    /\ files \in ConcSources
    /\ db = EmptyDb
    /\ InitRuns
    /\ probe = NoProbe

NextConc ==
    \E r \in Runs :
        \/ StartRun(r)
        \/ Step(r)

SpecConc == InitConc /\ [][NextConc]_vars

\* The description parser applied to one record, for every source URL of at
\* most MaxUrlLen characters and for an absent or null URL or metadata.
MaxUrlLen == 4
UrlChars == {"0", "1", "7", "p", "/", "?"}
UrlStrings == UNION {[1..n -> UrlChars] : n \in 0..MaxUrlLen}
\* ... and, under a URL that yields an id, for every page_content of at most
\* MaxBodyLen characters and for an absent page_content.
MaxBodyLen == 4
BodyChars == {"#", " ", "p", NL}
BodyStrings == UNION {[1..n -> BodyChars] : n \in 0..MaxBodyLen}
ProbeItems ==
    {Item("val", Body1, "val", "val", u) : u \in UrlStrings} \cup
    {Item("val", Body1, "val", "missing", <<>>),
     Item("val", Body1, "val", "null", <<>>),
     Item("val", Body1, "missing", "missing", <<>>)} \cup
    {Item("val", b, "val", "val", Url10) : b \in BodyStrings} \cup
    {Item("missing", <<>>, "val", "val", Url10)}

InitParse ==
    /\ files = [disc |-> MissingSheet, prog |-> MissingSheet, desc |-> MissingJson]
    /\ db = EmptyDb
    /\ InitRuns
    /\ probe \in {[NoProbe EXCEPT !.item = i] : i \in ProbeItems}

\* Lines 76-110: one iteration of the loop over the records.
ParseRecord ==
    /\ ~probe.done
    /\ probe' = [probe EXCEPT !.done = TRUE, !.res = ParseItem(probe.item)]
    /\ UNCHANGED <<files, db, fresh>>
    /\ UNCHANGED runVars

NextParse == ParseRecord

SpecParse == InitParse /\ [][NextParse]_vars

\* ------------------------------------------------------------ claim terms
Loaded(r) == lpc[r] \in {"committed", "returned"}

\* What a load of the four frames is to leave in each table.
ExpDiscipline(df) ==
    {[id |-> df.rows[i].discipline_id, name |-> df.rows[i].name, name_fr |-> NullStr]
        : i \in 1..Len(df.rows)}
ExpSchool(df) ==
    {[id |-> df.rows[i].id, name |-> df.rows[i].name, province |-> NullStr]
        : i \in 1..Len(df.rows)}
ExpProgram(df) ==
    {[id |-> df.rows[i].id, school_id |-> df.rows[i].school_id,
      discipline_id |-> df.rows[i].discipline_id, name |-> df.rows[i].name,
      url |-> df.rows[i].url] : i \in 1..Len(df.rows)}
ExpSection(df) ==
    {[id |-> i, program_id |-> df.rows[i].program_id, title |-> df.rows[i].title,
      content |-> df.rows[i].content] : i \in 1..Len(df.rows)}
ProgramCore(table) ==
    {[id |-> p.id, school_id |-> p.school_id, discipline_id |-> p.discipline_id,
      name |-> p.name, url |-> p.url] : p \in table}

ReflectsFrames(d, r) ==
    /\ d.discipline = ExpDiscipline(out[r]["transform_disciplines_asset"])
    /\ d.school = ExpSchool(out[r]["transform_schools_asset"])
    /\ ProgramCore(d.program) = ExpProgram(out[r]["transform_programs_asset"])
    /\ Cardinality(d.program) = Len(out[r]["transform_programs_asset"].rows)
    /\ d.programsection = ExpSection(DescDf(r))

\* C1: whenever the load's transaction was rolled back (a statement after
\* the TRUNCATE raised, the server failed, the step was interrupted), the
\* four tables and the helper table hold what they held when the run started.
C1_AtomicLoad ==
    \A r \in Runs :
        lpc[r] = "rolledback" =>
            /\ Tables(db) = Tables(dbAtStart[r])
            /\ db.section_seq = dbAtStart[r].section_seq
            /\ db.temp_program_meta = dbAtStart[r].temp_program_meta

\* A statement after the inserts of three tables raised, over a store that
\* held rows before the run.
C1_Witness ==
    \E r \in Runs :
        /\ lpc[r] = "rolledback"
        /\ failStep[r] = [at |-> "programs", why |-> "statement"]
        /\ dbAtStart[r].program # {}
        /\ dbAtStart[r].programsection # {}

\* The declared foreign keys hold of a store.
FkValid(d) ==
    /\ \A p \in d.program :
          /\ p.school_id = NullInt \/ \E s \in d.school : s.id = p.school_id
          /\ p.discipline_id = NullInt \/ \E x \in d.discipline : x.id = p.discipline_id
    /\ \A c \in d.programsection : \E p \in d.program : p.id = c.program_id

\* The frames handed to the loader are referentially consistent.
FramesFkValid(r) ==
    LET discIds == {row.discipline_id : row \in SeqToSet(out[r]["transform_disciplines_asset"].rows)}
        schoolIds == {row.id : row \in SeqToSet(out[r]["transform_schools_asset"].rows)}
        progRows == SeqToSet(out[r]["transform_programs_asset"].rows)
    IN  /\ \A p \in progRows :
              /\ p.school_id = NullInt \/ p.school_id \in schoolIds
              /\ p.discipline_id = NullInt \/ p.discipline_id \in discIds
        /\ \A c \in SeqToSet(DescDf(r).rows) : \E p \in progRows : p.id = c.program_id

\* C2: the committed store always satisfies the three foreign keys, and a
\* load whose frames violate them never commits: it ends rolled back, its
\* step failed.
C2_ReferentialIntegrity ==
    /\ FkValid(db)
    /\ \A r \in Runs :
          (asset[r][LOAD] # "pending" /\ ~FramesFkValid(r)) =>
              /\ ~Loaded(r)
              /\ asset[r][LOAD] # "ok"
              /\ (lpc[r] = "rolledback" => Tables(db) = Tables(dbAtStart[r]))

\* A description row naming a program absent from the program frame made
\* the section insert raise.
C2_Witness ==
    \E r \in Runs :
        /\ lpc[r] = "rolledback"
        /\ failStep[r] = [at |-> "programs", why |-> "statement"]
        /\ \E c \in SeqToSet(DescDf(r).rows) :
              \A p \in SeqToSet(out[r]["transform_programs_asset"].rows) : p.id # c.program_id
        /\ st[r] = "failure"

\* C3: a successful run that follows a successful run over unchanged source
\* files leaves the four tables as the earlier run left them.
C3_IdempotentRerun ==
    \A r \in Runs :
        (rerun[r] /\ Loaded(r)) => Tables(db) = Tables(dbAtStart[r])

\* C4: once a load has committed, each table holds exactly the rows of its
\* frame (sections numbered from 1 in frame order) and nothing else.
C4_FullReplacement ==
    \A r \in Runs : Loaded(r) => ReflectsFrames(db, r)

\* A load committed over a store that held other programs and sections.
C4_Witness ==
    \E r \in Runs :
        /\ lpc[r] = "returned"
        /\ dbAtStart[r].programsection # {}
        /\ Cardinality(dbAtStart[r].program) > Cardinality(db.program)
        /\ dbAtStart[r].discipline # db.discipline
        /\ db.programsection = {}

\* C5: with the description file absent or not JSON, program_descriptions_df
\* succeeds with an empty frame; a load that commits fills discipline, school
\* and program from their frames, writes no section and no extra_data, and
\* reports sections_count 0.
C5_MissingDescriptions ==
    \A r \in Runs :
        (st[r] # "idle" /\ files.desc.kind # "list") =>
            /\ asset[r]["program_descriptions_df"] \in {"pending", "ok"}
            /\ IsEmpty(DescDf(r))
            /\ asset[r][LOAD] # "skipped" \/
                  \E a \in Assets \ {"program_descriptions_df", LOAD} :
                      asset[r][a] \in {"failed", "skipped"}
            /\ Loaded(r) =>
                  /\ ReflectsFrames(db, r)
                  /\ db.programsection = {}
                  /\ \A p \in db.program : p.extra_data = NullSeq
            /\ lpc[r] = "returned" => meta[r].sections_count = 0

\* A run without description file succeeded and loaded programs.
C5_Witness ==
    \E r \in Runs :
        /\ files.desc.kind = "missing"
        /\ st[r] = "success"
        /\ meta[r].sections_count = 0
        /\ meta[r].programs_count = 2
        /\ Cardinality(db.program) = 2

\* The assets downstream of an asset, as the claim lists them.
Downstream(a) ==
    CASE a = "raw_disciplines_df" -> {"transform_disciplines_asset", LOAD}
      [] a = "raw_programs_df" ->
            {"transform_schools_asset", "transform_programs_asset", LOAD}
      [] OTHER -> {}

\* C6: when an extractor has failed, none of its dependents is executed in
\* that run, the loader is never entered and the store is as at run start.
C6_ExtractorFailure ==
    \A r \in Runs : \A a \in {"raw_disciplines_df", "raw_programs_df"} :
        asset[r][a] = "failed" =>
            /\ \A d \in Downstream(a) :
                  /\ asset[r][d] \in {"pending", "skipped"}
                  /\ execCount[r][d] = 0
            /\ lpc[r] = "idle"
            /\ db = dbAtStart[r]

\* The program master was missing; the independent steps still ran, the
\* run ended failed over a store holding rows.
C6_Witness ==
    \E r \in Runs :
        /\ asset[r]["raw_programs_df"] = "failed"
        /\ asset[r]["transform_disciplines_asset"] = "ok"
        /\ asset[r]["program_descriptions_df"] = "ok"
        /\ asset[r][LOAD] = "skipped"
        /\ st[r] = "failure"
        /\ db.program # {}

\* The inputs each asset declares, as the claim lists them.
DeclaredInputs(a) ==
    CASE a = "transform_disciplines_asset" -> {"raw_disciplines_df"}
      [] a \in {"transform_schools_asset", "transform_programs_asset"} -> {"raw_programs_df"}
      [] a = LOAD -> Assets \ {"raw_disciplines_df", "raw_programs_df", LOAD}
      [] OTHER -> {}

\* What an asset returns, as a function of the source files alone.
FromFiles(a) ==
    CASE a = "raw_disciplines_df" -> ReadSheet(files.disc).df
      [] a = "raw_programs_df" -> ReadSheet(files.prog).df
      [] a = "transform_disciplines_asset" -> TransformDisciplines(ReadSheet(files.disc).df).df
      [] a = "transform_schools_asset" -> TransformSchools(ReadSheet(files.prog).df).df
      [] a = "transform_programs_asset" -> TransformPrograms(ReadSheet(files.prog).df).df
      [] a = "program_descriptions_df" -> ParseDescriptions(files.desc).df
      [] OTHER -> NoFrame

\* C7: every asset is entered at most once per run and only after each of
\* its declared inputs has completed; the frames the steps produced, and so
\* the frames the loader is handed, are those the source files determine,
\* whatever the order of the independent steps.
C7_DependencyOrder ==
    \A r \in Runs : \A a \in Assets :
        /\ execCount[r][a] <= 1
        /\ (execCount[r][a] = 1 \/ asset[r][a] \in {"running", "ok", "failed"}) =>
              \A d \in DeclaredInputs(a) : asset[r][d] = "ok" /\ execCount[r][d] = 1
        /\ (asset[r][a] = "ok" /\ a # LOAD) => out[r][a] = FromFiles(a)
        /\ (a = LOAD /\ Loaded(r)) => ReflectsFrames(db, r)

\* The loader ran after all six upstream steps and the run succeeded.
C7_Witness ==
    \E r \in Runs :
        /\ st[r] = "success"
        /\ \A a \in Assets : execCount[r][a] = 1 /\ asset[r][a] = "ok"
        /\ db.programsection # {}

\* C9 as stated: a run cancelled before the loader opened its transaction
\* has not changed the store in any way.
C9_NoMutationBeforeTx ==
    \A r \in Runs :
        (st[r] = "cancelled" /\ lpc[r] \in {"idle", "created"}) => db = dbAtStart[r]

\* C9 as amended: a run cancelled before the loader opened its transaction
\* has changed no row (at most create_all has created the missing tables);
\* a cancelled run never leaves its transaction open or its lock held, and
\* the four tables are as at run start or fully loaded from the run's frames.
C9_CancellationSafety ==
    \A r \in Runs :
        st[r] = "cancelled" =>
            /\ r \notin txOpen
            /\ r \notin lock
            /\ lpc[r] \in {"idle", "created"} =>
                  \/ db = dbAtStart[r]
                  \/ lpc[r] = "created" /\ db = [dbAtStart[r] EXCEPT !.schema = TRUE]
            /\ \/ /\ Tables(db) = Tables(dbAtStart[r])
                  /\ db.temp_program_meta = dbAtStart[r].temp_program_meta
               \/ Loaded(r) /\ ReflectsFrames(db, r)

\* A run was cancelled while its transaction had truncated and partly
\* reloaded a store that held rows.
C9_Witness ==
    \E r \in Runs :
        /\ st[r] = "cancelled"
        /\ failStep[r] = [at |-> "sections", why |-> "cancel"]
        /\ dbAtStart[r].program # {}
        /\ db = dbAtStart[r]

\* The run's transaction has written to the tables and has not ended.
Writing(r) ==
    lpc[r] \in {"truncated", "disciplines", "schools", "programs", "sections",
                "temp", "updated", "patched"}

\* C8: of two overlapping runs at most one is in the write phase of its
\* load: a run writes only while it holds the lock of the four tables, which
\* no other run holds with it; and once both runs have ended the store is
\* the one they found when neither committed, and else reflects the frames of
\* a run that committed, as after running them one after the other.
C8_SingleWriter ==
    /\ \A r1 \in Runs : \A r2 \in Runs \ {r1} :
          /\ ~(Writing(r1) /\ Writing(r2))
          /\ ~(r1 \in lock /\ r2 \in lock)
    /\ \A r \in Runs : Writing(r) => r \in lock /\ r \in txOpen
    /\ \A r \in Runs : r \in lock =>
          /\ Tables(db) = Tables(dbAtStart[r]) \/ \E o \in Runs \ {r} : Loaded(o)
          /\ db.temp_program_meta = NoTemp
    /\ (\A r \in Runs : st[r] \in {"success", "failure", "cancelled"}) =>
          /\ db.temp_program_meta = NoTemp
          /\ IF \E r \in Runs : Loaded(r)
             THEN \E r \in Runs : Loaded(r) /\ ReflectsFrames(db, r)
             ELSE Tables(db) = Tables(EmptyDb)

\* One run is inside its write phase while the other, its transaction
\* open, waits at the TRUNCATE.
C8_Witness ==
    \E r1 \in Runs : \E r2 \in Runs \ {r1} :
        /\ lpc[r1] = "sections"
        /\ lpc[r2] = "begun"
        /\ r2 \in txOpen
        /\ ~ENABLED TruncateTables(r2)

\* The claim's reading of a source URL: the part before the first '?', its
\* last segment (after the last '/') and its second-to-last segment.
SetMax(S) == CHOOSE m \in S : \A k \in S : k <= m
SetMin(S) == CHOOSE m \in S : \A k \in S : m <= k
PathOf(u) ==
    LET q == {i \in 1..Len(u) : u[i] = "?"}
    IN  IF q = {} THEN u ELSE SubSeq(u, 1, SetMin(q) - 1)
Slashes(p) == {i \in 1..Len(p) : p[i] = "/"}
LastSegment(p) ==
    IF Slashes(p) = {} THEN p ELSE SubSeq(p, SetMax(Slashes(p)) + 1, Len(p))
PrevSegment(p) ==
    LET m == SetMax(Slashes(p))
        before == {i \in Slashes(p) : i < m}
    IN  SubSeq(p, IF before = {} THEN 1 ELSE SetMax(before) + 1, m - 1)
AllNumeric(seg) ==
    seg # <<>> /\ \A i \in 1..Len(seg) : seg[i] \in {"0", "1", "7", "9"}
RECURSIVE Decimal(_, _)
Decimal(seg, acc) ==
    IF seg = <<>> THEN acc
    ELSE Decimal(Tail(seg), 10 * acc + (CASE Head(seg) = "1" -> 1 [] Head(seg) = "7" -> 7
                                          [] Head(seg) = "9" -> 9 [] OTHER -> 0))
ClaimedId(item) ==
    LET url == IF item.mdKind = "val" /\ item.srcKind = "val" THEN item.src ELSE <<>>
        path == PathOf(url)
    IN  IF AllNumeric(LastSegment(path))
        THEN [ok |-> TRUE, id |-> Decimal(LastSegment(path), 0)]
        ELSE IF Slashes(path) # {} /\ AllNumeric(PrevSegment(path))
        THEN [ok |-> TRUE, id |-> Decimal(PrevSegment(path), 0)]
        ELSE [ok |-> FALSE, id |-> NullInt]

\* C10: a parsed record yields a row exactly when the last segment of its
\* URL path, or else the second-to-last, is entirely numeric, and the row's
\* program_id is the integer value of that segment; any other record (an
\* empty, absent or null URL included) yields no row.
C10_ProgramIdExtraction ==
    probe.done =>
        LET want == ClaimedId(probe.item)
        IN  IF want.ok
            THEN probe.res.kind = "row" /\ probe.res.row.program_id = want.id
            ELSE probe.res.kind = "skip"

\* The URL ends in '/': the id came from the segment before it.
C10_Witness ==
    /\ probe.done
    /\ probe.item.src = <<"1", "7", "/">>
    /\ probe.res.kind = "row"
    /\ probe.res.row.program_id = 17

\* --------------------------------------------- the school transformer alone
\* transform_schools_asset applied to one program-master frame, for every
\* frame of at most MaxSheetRows programs whose schools are drawn from
\* SchoolPairs; the programs themselves differ from row to row.
MaxSheetRows == 3
SchoolPairs == {<<1, "UBC">>, <<1, "Toronto">>, <<2, "UBC">>, <<2, "Toronto">>}
SchoolFrames ==
    {Frame(ProgCols, [i \in DOMAIN f |-> ProgRow(9 + i, "FM", Url10, f[i][1], f[i][2], 1)]) :
        f \in UNION {[1..n -> SchoolPairs] : n \in 0..MaxSheetRows}}

InitSchools ==
    /\ files = [disc |-> MissingSheet, prog |-> MissingSheet, desc |-> MissingJson]
    /\ db = EmptyDb
    /\ InitRuns
    /\ probe \in {[NoProbe EXCEPT !.sheet = fr] : fr \in SchoolFrames}

TransformSchoolsRecord ==
    /\ ~probe.transformed
    /\ probe' = [probe EXCEPT !.transformed = TRUE,
                              !.schools = TransformSchools(probe.sheet)]
    /\ UNCHANGED <<files, db, fresh>>
    /\ UNCHANGED runVars

NextSchools == TransformSchoolsRecord
SpecSchools == InitSchools /\ [][NextSchools]_vars

\* The (school_id, school_name) pair of an input row, as an output row.
PairOf(row) == [id |-> row.school_id, name |-> row.school_name]
\* The index of the first input row that carries the pair.
FirstIndex(rows, pair) == SetMin({i \in 1..Len(rows) : PairOf(rows[i]) = pair})

\* C13: the school transformer emits exactly one row (id, name) per
\* distinct (school_id, school_name) pair of its input, pairs distinct by
\* exact equality, in order of first occurrence, and never more rows than
\* the input has.
C13_SchoolDeduplication ==
    probe.transformed =>
        LET in == probe.sheet.rows
            outRows == probe.schools.df.rows
        IN  /\ ~probe.schools.failed
            /\ \A i \in 1..Len(in) :
                   Cardinality({k \in 1..Len(outRows) : outRows[k] = PairOf(in[i])}) = 1
            /\ \A k \in 1..Len(outRows) : \E i \in 1..Len(in) : outRows[k] = PairOf(in[i])
            /\ \A k, l \in 1..Len(outRows) :
                   k < l => FirstIndex(in, outRows[k]) < FirstIndex(in, outRows[l])
            /\ Len(outRows) <= Len(in)

\* A pair repeated around a pair that shares its id: three input rows, two
\* output rows.
C13_Witness ==
    /\ probe.transformed
    /\ Len(probe.sheet.rows) = 3
    /\ PairOf(probe.sheet.rows[1]) = PairOf(probe.sheet.rows[3])
    /\ PairOf(probe.sheet.rows[2]).id = PairOf(probe.sheet.rows[1]).id
    /\ Len(probe.schools.df.rows) = 2

\* The claim's reading of a title: the first line of the content, its
\* surrounding whitespace and its leading '#' characters removed, the rest
\* of the line kept; the literal title for an empty content.
FirstLine(c) ==
    LET nl == {i \in 1..Len(c) : c[i] = NL}
    IN  IF nl = {} THEN c ELSE SubSeq(c, 1, SetMin(nl) - 1)
RECURSIVE DropLeadingHashes(_)
DropLeadingHashes(c) ==
    IF c # <<>> /\ Head(c) = "#" THEN DropLeadingHashes(Tail(c)) ELSE c
ClaimedTitle(item) ==
    LET content == IF item.pcKind = "val" THEN item.pc ELSE <<>>
    IN  IF content = <<>> THEN <<"Program Description">>
        ELSE Strip(DropLeadingHashes(Strip(FirstLine(content))))

\* C11: the title of every row the parser yields is the first line of
\* page_content with leading '#' characters and surrounding whitespace
\* stripped, later '#' characters kept, and "Program Description" when
\* page_content is empty.
C11_TitleExtraction ==
    (probe.done /\ probe.res.kind = "row") =>
        probe.res.row.title = ClaimedTitle(probe.item)

\* The program ids the claim expects of an export: those of the records that
\* yield an id, in input order.
RECURSIVE ClaimedIds(_)
ClaimedIds(items) ==
    IF items = <<>> THEN <<>>
    ELSE (IF ClaimedId(Head(items)).ok THEN <<ClaimedId(Head(items)).id>> ELSE <<>>)
         \o ClaimedIds(Tail(items))

\* C12: for an export that parses as a list of records, the parser step
\* does not fail whatever single record is malformed (null metadata
\* included), and its output has one row per record that yields a program
\* id, in input order.
C12_MalformedRecordIsolation ==
    \A r \in Runs :
        (files.desc.kind = "list"
         /\ asset[r]["program_descriptions_df"] \in {"ok", "failed"}) =>
            /\ asset[r]["program_descriptions_df"] = "ok"
            /\ [i \in 1..Len(DescDf(r).rows) |-> DescDf(r).rows[i].program_id]
                   = ClaimedIds(files.desc.items)

\* The description rows of run r that carry program id.
Carriers(r, id) ==
    {i \in 1..Len(DescDf(r).rows) : DescDf(r).rows[i].program_id = id}

\* C14: after a successful load every program whose id is carried by some
\* description row has the extra_data of a description row with that id,
\* every other program has extra_data null, whatever it was before the run;
\* and temp_program_meta does not exist once the load has committed or
\* rolled back.
C14_ProgramMetadataPatch ==
    \A r \in Runs :
        /\ Loaded(r) =>
              \A p \in db.program :
                  IF Carriers(r, p.id) # {}
                  THEN \E i \in Carriers(r, p.id) :
                           p.extra_data = DescDf(r).rows[i].extra_data
                  ELSE p.extra_data = NullSeq
        /\ lpc[r] \in {"committed", "returned", "rolledback"} =>
              ~db.temp_program_meta.exists

\* A second load over a store whose program 10 already had extra_data:
\* program 10, carried by two description rows, takes the value of the
\* second, and program 11, carried by none, is null.
C14_Witness ==
    /\ Loaded("A")
    /\ Cardinality(Carriers("A", 10)) = 2
    /\ \E p \in dbAtStart["A"].program : p.id = 10 /\ p.extra_data # NullSeq
    /\ \E p \in db.program :
          p.id = 10 /\ p.extra_data = DescDf("A").rows[2].extra_data
    /\ \E p \in db.program : p.id = 11 /\ p.extra_data = NullSeq

\* The school frame handed to the loader by run r.
SchoolDf(r) == out[r]["transform_schools_asset"]

\* C15: the school frame handed to the loader has no two rows with the same
\* id, and the loader's school insert never raises on the primary key of
\* school, even when one school_id occurs under two names.
C15_SchoolPrimaryKeyUnique ==
    \A r \in Runs :
        asset[r]["transform_schools_asset"] = "ok" =>
            /\ \A i, j \in 1..Len(SchoolDf(r).rows) :
                   SchoolDf(r).rows[i].id = SchoolDf(r).rows[j].id => i = j
            /\ failStep[r] # [at |-> "disciplines", why |-> "statement"]

====
